---- MODULE Spec2Model ----
(***************************************************************************)
(* State-machine model of HyperliquidClient (client.ts): the connection    *)
(* lifecycle, the reconnection policy, the connected-only requests, the    *)
(* authentication handshake and the event fan-out.                         *)
(*                                                                         *)
(* A transport is one socket returned by io().  With reconnection: false   *)
(* a socket goes  opening -> up -> acked  and ends in failed (connect      *)
(* error while opening) or closed (disconnect while up or acked); a        *)
(* failed or closed socket delivers no further event.                      *)
(*                                                                         *)
(* Spec     : lifecycle, reconnection policy, handler registration.        *)
(* SpecReq  : lifecycle and the connected-only calls.                      *)
(* SpecAuth : lifecycle and the authentication handshake.                  *)
(***************************************************************************)
EXTENDS Integers, Sequences, FiniteSets, TLC

\* ---------------------------------------------------------------- bounds
MaxTransports == 3      \* sockets opened in one behaviour of Spec
MaxApiTransports == 2   \* sockets opened in one behaviour of SpecReq
MaxAuthTransports == 2  \* sockets opened in one behaviour of SpecAuth
MaxAttemptsCfg == 3     \* largest maxReconnectAttempts a client is built with
MaxAuthCalls == 1       \* authenticate() calls in one behaviour
MaxDataTransports == 2  \* sockets opened in one behaviour of SpecData
MaxFanTransports == 2   \* sockets opened in one behaviour of SpecFan
MaxRaceTransports == 1  \* sockets opened in one behaviour of SpecRace
MaxRaceCalls == 2       \* authenticate() calls in one behaviour of SpecRace
MaxLiveTransports == 4  \* sockets opened in one behaviour of SpecLive
MaxLiveCalls == 2       \* sockets the caller's own connect() calls may open

Delays == {100, 1000}                   \* reconnectDelay values (ms)
Wallets == {"0xabc", "0xdef"}
Handlers == {"h1"}
Reasons == {"transport close", "io server disconnect"}
\* Application errors as the server reports them: { code, message }.
ServerErrors ==
    {[code |-> "SERVER_ERROR", message |-> "internal error"],
     [code |-> "RATE_LIMITED", message |-> "too many requests"]}
InternalError == CHOOSE e \in ServerErrors : e.code = "SERVER_ERROR"
ClientDisconnect == "io client disconnect"
LifecycleEvents ==
    {"connected", "disconnected", "reconnecting", "error", "stateChange"}
RegEvents == {"stateChange", "error"}   \* events handlers are registered for
DataRegEvents == {"prices", "balance"}  \* the same, in SpecData
FanEvents == {"connected", "prices"}    \* the same, in SpecFan
FanHandlers == {"hThrow", "hSub"}
FanMessages == {"prices:snapshot", "prices:update"}
LogicalEvents ==
    LifecycleEvents \cup
    {"authenticated", "prices", "price", "orderbook", "trades", "candles",
     "candle", "positions", "position", "positionClosed", "openOrders",
     "openOrder", "orderRemoved", "orderHistory", "orderFill", "fundings",
     "funding", "balance", "subscribed", "unsubscribed"}
RequestMethods ==
    {"subscribePrices", "getPrices", "subscribeOrderBook", "subscribeTrades",
     "subscribeCandles", "unsubscribe"}
\* The methods of class HyperliquidClient that are not private.
PublicMethods ==
    {"getNetwork", "connect", "disconnect", "getState", "isConnected",
     "subscribePrices", "getPrices", "subscribeOrderBook", "subscribeTrades",
     "subscribeCandles", "authenticate", "getBalance",
     "getAuthenticatedWallet", "unsubscribe", "on", "off",
     "removeAllListeners"}
\* The calls the README makes in its section Full Asset Subscription.
AssetMethods == {"subscribeAsset", "unsubscribeAsset"}
NotAFunction == "TypeError: not a function"
NotConnected == "Not connected. Call connect() first."
NotAuthenticated == "Not authenticated. Call authenticate(wallet) first."
NoWallet == "null"
NoTimer == 0
NoSocket == 0

VARIABLES
    \* fields of HyperliquidClient
    state, socket, reconnectAttempts, reconnectTimer, authenticatedWallet,
    eventHandlers,
    \* options
    autoReconnect, reconnectDelay, maxReconnectAttempts,
    \* environment: sockets, timers, pending authenticate() calls
    transports, timers, authCalls,
    \* what the last step did: the call and its result, the emit() calls,
    \* the messages sent on a socket
    op, emitted, sentNow, invoked,
    \* history
    failures, policyLog, authOK, userDisconnected

fields == <<state, socket, reconnectAttempts, reconnectTimer,
            authenticatedWallet, eventHandlers>>
options == <<autoReconnect, reconnectDelay, maxReconnectAttempts>>
env == <<transports, timers, authCalls>>
outputs == <<op, emitted, sentNow, invoked>>
history == <<failures, policyLog, authOK, userDisconnected>>
vars == <<fields, options, env, outputs, history>>

\* ------------------------------------------------------------- arithmetic
RECURSIVE IntPow(_, _)
IntPow(b, n) == IF n = 0 THEN 1 ELSE b * IntPow(b, n - 1)

\* Math.pow(1.5, n) as the fraction 3^n / 2^n (exact in a double for the
\* attempt numbers the model reaches).
MathPow15(n) == [num |-> IntPow(3, n), den |-> IntPow(2, n)]

BackoffDelay_offByOne(base, attempts) ==
    [num |-> base * MathPow15(attempts).num, den |-> MathPow15(attempts).den]

\* delay = reconnectDelay * Math.pow(1.5, reconnectAttempts - 1)
BackoffDelay(base, attempts) ==
    [num |-> base * MathPow15(attempts - 1).num,
     den |-> MathPow15(attempts - 1).den]

\* --------------------------------------------------------- client record
\* The handlers below are functions on a record of the mutable fields, so
\* that one action can run a whole call chain (listener -> handleXxx ->
\* scheduleReconnect -> setState -> emit).
Client ==
    [state |-> state, socket |-> socket,
     reconnectAttempts |-> reconnectAttempts,
     reconnectTimer |-> reconnectTimer,
     authenticatedWallet |-> authenticatedWallet,
     timers |-> timers, emitted |-> <<>>, policyLog |-> policyLog,
     sent |-> <<>>, invoked |-> <<>>]

\* ensureConnected() on the fields as they are in the middle of a call chain
EnsureConnectedIn(c) == c.socket # NoSocket /\ c.state = "connected"

\* What a registered handler does when it is called.  h1 returns, hThrow
\* throws, hSub calls subscribePrices() as the README's connected handler
\* does (which throws when ensureConnected() does).
Handler(c, event, h) ==
    CASE h = "hThrow" -> [c |-> c, threw |-> TRUE]
      [] h = "hSub" ->
           IF EnsureConnectedIn(c)
           THEN [c |-> [c EXCEPT !.sent =
                          Append(@, [t |-> c.socket, name |-> "subscribe:price"])],
                 threw |-> FALSE]
           ELSE [c |-> c, threw |-> TRUE]
      [] OTHER -> [c |-> c, threw |-> FALSE]

\* One handler call of emission number Len(c.emitted), as it is logged.
Invocation(c, event, h, threw, caught) ==
    [em |-> Len(c.emitted), event |-> event, handler |-> h,
     threw |-> threw, caught |-> caught]

RECURSIVE RunHandlers_noCatch(_, _, _)
RunHandlers_noCatch(c, event, hs) ==
    IF hs = <<>> THEN c
    ELSE LET r == Handler(c, event, Head(hs))
             c1 == [r.c EXCEPT !.invoked =
                      Append(@, Invocation(c, event, Head(hs), r.threw, FALSE))]
         IN  IF r.threw THEN c1
             ELSE RunHandlers_noCatch(c1, event, Tail(hs))

RECURSIVE RunHandlers_reverse(_, _, _)
RunHandlers_reverse(c, event, hs) ==
    IF hs = <<>> THEN c
    ELSE LET h == hs[Len(hs)]
             r == Handler(c, event, h)
             c1 == [r.c EXCEPT !.invoked =
                      Append(@, Invocation(c, event, h, r.threw, r.threw))]
         IN  RunHandlers_reverse(c1, event, SubSeq(hs, 1, Len(hs) - 1))

\* handlers.forEach(handler => { try { handler(data) } catch { log } })
RECURSIVE RunHandlers(_, _, _)
RunHandlers(c, event, hs) ==
    IF hs = <<>> THEN c
    ELSE LET r == Handler(c, event, Head(hs))
             c1 == [r.c EXCEPT !.invoked =
                      Append(@, Invocation(c, event, Head(hs), r.threw, r.threw))]
         IN  RunHandlers(c1, event, Tail(hs))

\* emit(event, data): this.eventHandlers.get(event), then every handler.
Emit(c, event, data) ==
    RunHandlers([c EXCEPT !.emitted =
                   Append(@, [event |-> event, data |-> data])],
                event,
                IF event \in DOMAIN eventHandlers
                THEN eventHandlers[event] ELSE <<>>)

SetState(c, s) ==
    Emit([c EXCEPT !.state = s], "stateChange", [state |-> s])

ReconnectExhausted_never(attempts) == FALSE

ReconnectExhausted_strict(attempts) == attempts > maxReconnectAttempts

ReconnectExhausted(attempts) == attempts >= maxReconnectAttempts

NextAttempt_reset(attempts) == 1

NextAttempt(attempts) == attempts + 1

ScheduleReconnect(c) ==
    IF ReconnectExhausted(c.reconnectAttempts)
    THEN [Emit(SetState(c, "error"), "error",
               [code |-> "MAX_RECONNECT_ATTEMPTS"])
            EXCEPT !.policyLog = Append(@, 0)]
    ELSE LET c1 == [c EXCEPT !.reconnectAttempts = NextAttempt(@)]
             c2 == SetState(c1, "reconnecting")
             delay == BackoffDelay(reconnectDelay, c2.reconnectAttempts)
             c3 == Emit(c2, "reconnecting",
                        [attempt |-> c2.reconnectAttempts,
                         maxAttempts |-> maxReconnectAttempts])
             ev == c3.emitted[Len(c3.emitted)]
         IN  [c3 EXCEPT
                !.timers = Append(@, [status |-> "pending",
                                      attempt |-> ev.data.attempt,
                                      delay |-> delay]),
                !.reconnectTimer = Len(c3.timers) + 1,
                !.policyLog = Append(@, ev.data.attempt)]

HandleConnectionError_alwaysReconnect(c) ==
    ScheduleReconnect(Emit(c, "error", [code |-> "CONNECTION_ERROR"]))

HandleConnectionError(c) ==
    LET c1 == Emit(c, "error", [code |-> "CONNECTION_ERROR"])
    IN  IF autoReconnect THEN ScheduleReconnect(c1) ELSE SetState(c1, "error")

HandleDisconnect_noReasonCheck(c, reason) ==
    LET c1 == Emit(SetState(c, "disconnected"), "disconnected",
                   [reason |-> reason])
    IN  IF autoReconnect THEN ScheduleReconnect(c1) ELSE c1

HandleDisconnect(c, reason) ==
    LET c1 == Emit(SetState(c, "disconnected"), "disconnected",
                   [reason |-> reason])
    IN  IF autoReconnect /\ reason # ClientDisconnect
        THEN ScheduleReconnect(c1)
        ELSE c1

\* ------------------------------------------------------------- transports
Live(t) == transports[t].status \in {"opening", "up", "acked"}
LiveTransports == {t \in 1..Len(transports) : Live(t)}
PendingTimers == {i \in 1..Len(timers) : timers[i].status = "pending"}

\* Writes the record of client fields back to the variables.
Commit(c) ==
    /\ state' = c.state
    /\ socket' = c.socket
    /\ reconnectAttempts' = c.reconnectAttempts
    /\ reconnectTimer' = c.reconnectTimer
    /\ authenticatedWallet' = c.authenticatedWallet
    /\ timers' = c.timers
    /\ emitted' = c.emitted
    /\ policyLog' = c.policyLog
    /\ sentNow' = c.sent
    /\ invoked' = c.invoked

Init ==
    /\ state = "disconnected"
    /\ socket = NoSocket
    /\ reconnectAttempts = 0
    /\ reconnectTimer = NoTimer
    /\ authenticatedWallet = NoWallet
    /\ eventHandlers = [e \in LogicalEvents |-> <<>>]
    /\ autoReconnect \in BOOLEAN
    /\ reconnectDelay \in Delays
    /\ maxReconnectAttempts \in 0..MaxAttemptsCfg
    /\ transports = <<>>
    /\ timers = <<>>
    /\ authCalls = <<>>
    /\ op = [name |-> "new", result |-> "ok"]
    /\ emitted = <<>>
    /\ sentNow = <<>>
    /\ invoked = <<>>
    /\ failures = 0
    /\ policyLog = <<>>
    /\ authOK = FALSE
    /\ userDisconnected = FALSE

\* ----------------------------------------------------------------- connect
ConnectIsNoOp_connectedOnly(s) == s = "connected"

\* if (this.state === "connected" || this.state === "connecting") return;
ConnectIsNoOp(s) == s \in {"connected", "connecting"}

\* connect(): the guard, setState("connecting"), this.socket = io(...).
\* The promise of the call is kept with the socket it opened.
Connect(c, cap) ==
    IF ConnectIsNoOp(c.state)
    THEN /\ Commit(c)
         /\ UNCHANGED transports
    ELSE /\ Len(transports) < cap
         /\ Commit([SetState(c, "connecting")
                      EXCEPT !.socket = Len(transports) + 1])
         /\ transports' = Append(transports,
                                 [status |-> "opening", promise |-> "pending"])

CallConnect(cap) ==
    /\ Connect(Client, cap)
    /\ op' = [name |-> "connect",
              result |-> IF ConnectIsNoOp(state) THEN "resolved" ELSE "pending"]
    /\ userDisconnected' = FALSE
    /\ UNCHANGED <<eventHandlers, options, authCalls, failures, authOK>>

\* The callback of setTimeout in scheduleReconnect: this.connect().catch(..)
TimerFire(i, cap) ==
    /\ i \in PendingTimers
    /\ Connect([Client EXCEPT !.timers[i].status = "fired"], cap)
    /\ op' = [name |-> "timer", result |-> "ok"]
    /\ UNCHANGED <<eventHandlers, options, authCalls, failures, authOK,
                   userDisconnected>>

\* ------------------------------------------------------- transport events
\* The socket finishes its handshake; the client listens for no such event.
TransportUp(t) ==
    /\ t \in 1..Len(transports)
    /\ transports[t].status = "opening"
    /\ transports' = [transports EXCEPT ![t].status = "up"]
    /\ op' = [name |-> "transportUp", result |-> "ok"]
    /\ emitted' = <<>>
    /\ invoked' = <<>>
    /\ sentNow' = <<>>
    /\ UNCHANGED <<fields, options, timers, authCalls, history>>

HandleConnected_emitFirst(c, t) ==
    LET c1 == Emit(c, "connected", [clientId |-> t])
        c2 == SetState(c1, "connected")
    IN  [c2 EXCEPT !.reconnectAttempts = 0]

\* The body of the connected listener: setState("connected"),
\* reconnectAttempts = 0, emit("connected", data).
HandleConnected(c, t) ==
    LET c1 == SetState(c, "connected")
        c2 == [c1 EXCEPT !.reconnectAttempts = 0]
    IN  Emit(c2, "connected", [clientId |-> t])

\* socket.on("connected", ...): the server's connection acknowledgment.
OnConnected(t) ==
    /\ t \in 1..Len(transports)
    /\ transports[t].status = "up"
    /\ Commit([HandleConnected(Client, t) EXCEPT !.policyLog = <<>>])
    /\ transports' = [transports EXCEPT
                        ![t].status = "acked",
                        ![t].promise = IF @ = "pending" THEN "resolved" ELSE @]
    /\ op' = [name |-> "onConnected", result |-> "ok"]
    /\ failures' = 0
    /\ UNCHANGED <<eventHandlers, options, authCalls, authOK,
                   userDisconnected>>

\* socket.on("connect_error", ...): handleConnectionError(error), then
\* reject(error) if the state is still "connecting".
OnConnectError(t) ==
    /\ t \in 1..Len(transports)
    /\ transports[t].status = "opening"
    /\ LET c1 == HandleConnectionError(Client)
       IN  /\ Commit(c1)
           /\ transports' = [transports EXCEPT
                ![t].status = "failed",
                ![t].promise = IF c1.state = "connecting" /\ @ = "pending"
                               THEN "rejected" ELSE @]
    /\ op' = [name |-> "onConnectError", result |-> "ok"]
    /\ failures' = IF autoReconnect THEN failures + 1 ELSE failures
    /\ UNCHANGED <<eventHandlers, options, authCalls, authOK,
                   userDisconnected>>

\* socket.on("disconnect", ...): a disconnect the caller did not ask for.
OnDisconnect(t, reason) ==
    /\ t \in 1..Len(transports)
    /\ transports[t].status \in {"up", "acked"}
    /\ Commit(HandleDisconnect(Client, reason))
    /\ transports' = [transports EXCEPT ![t].status = "closed"]
    /\ op' = [name |-> "onDisconnect", result |-> "ok", reason |-> reason]
    /\ failures' = IF autoReconnect THEN failures + 1 ELSE failures
    /\ authOK' = FALSE
    /\ UNCHANGED <<eventHandlers, options, authCalls, userDisconnected>>

OnServerError_reconnects(t, error) ==
    /\ t \in 1..Len(transports)
    /\ transports[t].status = "acked"
    /\ Commit(ScheduleReconnect(Emit(Client, "error", error)))
    /\ op' = [name |-> "onServerError", result |-> "ok", data |-> error]
    /\ UNCHANGED <<eventHandlers, options, transports, authCalls, failures,
                   authOK, userDisconnected>>

\* socket.on("error", ...): a server-reported application error.
OnServerError(t, error) ==
    /\ t \in 1..Len(transports)
    /\ transports[t].status = "acked"
    /\ Commit(Emit(Client, "error", error))
    /\ op' = [name |-> "onServerError", result |-> "ok", data |-> error]
    /\ UNCHANGED <<eventHandlers, options, transports, authCalls, failures,
                   authOK, userDisconnected>>

\* -------------------------------------------------------------- disconnect
\* disconnect(): clearTimeout, socket.disconnect() (which delivers the
\* "disconnect" event with reason "io client disconnect" when the socket
\* was up), socket = null, setState("disconnected"), wallet = null.
CallDisconnect ==
    LET c0 == Client
        c1 == IF c0.reconnectTimer # NoTimer
              THEN [c0 EXCEPT
                      !.timers[c0.reconnectTimer].status =
                          IF @ = "pending" THEN "cleared" ELSE @,
                      !.reconnectTimer = NoTimer]
              ELSE c0
        wasUp == /\ c1.socket # NoSocket
                 /\ transports[c1.socket].status \in {"up", "acked"}
        c2 == IF wasUp THEN HandleDisconnect(c1, ClientDisconnect) ELSE c1
        c3 == [c2 EXCEPT !.socket = NoSocket]
        c4 == SetState(c3, "disconnected")
    IN  /\ Commit([c4 EXCEPT !.authenticatedWallet = NoWallet])
        /\ transports' =
             IF c1.socket # NoSocket /\ Live(c1.socket)
             THEN [transports EXCEPT ![c1.socket].status = "closed"]
             ELSE transports
        /\ op' = [name |-> "disconnect", result |-> "ok"]
        /\ authOK' = FALSE
        /\ userDisconnected' = TRUE
        /\ UNCHANGED <<eventHandlers, options, authCalls, failures>>

\* ---------------------------------------------------------------- requests
EnsureConnected_socketOnly == socket # NoSocket

\* ensureConnected(): throws unless a socket is held and state is connected
EnsureConnected == socket # NoSocket /\ state = "connected"

EnsureAuthenticated_always == TRUE

\* ensureAuthenticated(): throws unless a wallet is authenticated
EnsureAuthenticated == authenticatedWallet # NoWallet

MessageName(m) ==
    CASE m = "subscribePrices" -> "subscribe:price"
      [] m = "getPrices" -> "get:prices"
      [] m = "subscribeOrderBook" -> "subscribe:orderbook"
      [] m = "subscribeTrades" -> "subscribe:trades"
      [] m = "subscribeCandles" -> "subscribe:candle"
      [] m = "unsubscribe" -> "unsubscribe"

Quiet == /\ emitted' = <<>>
         /\ invoked' = <<>>
         /\ UNCHANGED <<fields, options, transports, timers, history>>

CallRequest_twice(m) ==
    /\ IF EnsureConnected
       THEN /\ op' = [name |-> m, result |-> "ok"]
            /\ sentNow' = <<[t |-> socket, name |-> MessageName(m)],
                            [t |-> socket, name |-> MessageName(m)]>>
       ELSE /\ op' = [name |-> m, result |-> NotConnected]
            /\ sentNow' = <<>>
    /\ Quiet
    /\ UNCHANGED authCalls

\* subscribePrices, getPrices, subscribeOrderBook, subscribeTrades,
\* subscribeCandles, unsubscribe: ensureConnected(), then one socket.emit.
CallRequest(m) ==
    /\ IF EnsureConnected
       THEN /\ op' = [name |-> m, result |-> "ok"]
            /\ sentNow' = <<[t |-> socket, name |-> MessageName(m)]>>
       ELSE /\ op' = [name |-> m, result |-> NotConnected]
            /\ sentNow' = <<>>
    /\ Quiet
    /\ UNCHANGED authCalls

\* client.subscribeAsset(..), client.unsubscribeAsset(..): a call of a
\* property the class does not define throws a TypeError and does nothing.
CallMissing(m) ==
    /\ m \notin PublicMethods
    /\ op' = [name |-> m, result |-> NotAFunction]
    /\ sentNow' = <<>>
    /\ Quiet
    /\ UNCHANGED authCalls

\* getBalance(): ensureConnected(), ensureAuthenticated(), then the request.
CallGetBalance ==
    /\ IF ~EnsureConnected
       THEN /\ op' = [name |-> "getBalance", result |-> NotConnected]
            /\ sentNow' = <<>>
       ELSE IF ~EnsureAuthenticated
       THEN /\ op' = [name |-> "getBalance", result |-> NotAuthenticated]
            /\ sentNow' = <<>>
       ELSE /\ op' = [name |-> "getBalance", result |-> "pending"]
            /\ sentNow' = <<[t |-> socket, name |-> "get:userBalance"]>>
    /\ Quiet
    /\ UNCHANGED authCalls

\* ---------------------------------------------------------- authentication
\* authenticate(wallet): ensureConnected(), then a 10 s timeout, a once
\* listener for "authenticated", a once listener for "auth:error", and the
\* request.  One record per call that got past ensureConnected().
CallAuthenticate(w, cap) ==
    /\ IF EnsureConnected
       THEN /\ Len(authCalls) < cap
            /\ authCalls' = Append(authCalls,
                 [t |-> socket, wallet |-> w, okL |-> TRUE, errL |-> TRUE,
                  timeout |-> TRUE, promise |-> "pending",
                  answered |-> FALSE])
            /\ op' = [name |-> "authenticate", result |-> "pending"]
            /\ sentNow' = <<[t |-> socket, name |-> "authenticate"]>>
       ELSE /\ authCalls' = authCalls
            /\ op' = [name |-> "authenticate", result |-> NotConnected]
            /\ sentNow' = <<>>
    /\ Quiet

RECURSIVE EmitTimes(_, _, _, _)
EmitTimes(c, n, event, data) ==
    IF n = 0 THEN c ELSE EmitTimes(Emit(c, event, data), n - 1, event, data)

\* The server answers request i with "authenticated": every once listener
\* for it on that socket runs (clearTimeout, set the wallet, emit, resolve).
OnAuthenticated(i) ==
    /\ i \in 1..Len(authCalls)
    /\ ~authCalls[i].answered
    /\ Live(authCalls[i].t)
    /\ LET t == authCalls[i].t
           w == authCalls[i].wallet
           ls == {j \in 1..Len(authCalls) :
                     authCalls[j].t = t /\ authCalls[j].okL}
           c1 == IF ls = {} THEN Client
                 ELSE [Client EXCEPT !.authenticatedWallet = w]
       IN  /\ Commit(EmitTimes(c1, Cardinality(ls), "authenticated",
                               [wallet |-> w]))
           /\ authCalls' = [j \in 1..Len(authCalls) |->
                LET a == [authCalls[j] EXCEPT
                            !.answered = IF j = i THEN TRUE ELSE @]
                IN  IF j \in ls
                    THEN [a EXCEPT !.okL = FALSE, !.timeout = FALSE,
                            !.promise = IF @ = "pending" THEN "resolved"
                                        ELSE @]
                    ELSE a]
           /\ authOK' = (authOK \/ ls # {})
    /\ op' = [name |-> "onAuthenticated", result |-> "ok"]
    /\ UNCHANGED <<eventHandlers, options, transports, failures,
                   userDisconnected>>

OnAuthError_broadcast(i) ==
    /\ i \in 1..Len(authCalls)
    /\ ~authCalls[i].answered
    /\ Live(authCalls[i].t)
    /\ authCalls' = [j \in 1..Len(authCalls) |->
         LET a == [authCalls[j] EXCEPT
                     !.answered = IF j = i THEN TRUE ELSE @]
         IN  IF a.t = authCalls[i].t /\ a.errL
             THEN [a EXCEPT !.errL = FALSE, !.timeout = FALSE,
                     !.promise = IF @ = "pending" THEN "rejected" ELSE @]
             ELSE a]
    /\ op' = [name |-> "onAuthError", result |-> "ok"]
    /\ Commit(Emit(Client, "error", [code |-> "AUTH_ERROR"]))
    /\ UNCHANGED <<eventHandlers, options, transports, history>>

\* The server answers request i with "auth:error": every once listener for
\* it on that socket runs (clearTimeout, reject).
OnAuthError(i) ==
    /\ i \in 1..Len(authCalls)
    /\ ~authCalls[i].answered
    /\ Live(authCalls[i].t)
    /\ authCalls' = [j \in 1..Len(authCalls) |->
         LET a == [authCalls[j] EXCEPT
                     !.answered = IF j = i THEN TRUE ELSE @]
         IN  IF a.t = authCalls[i].t /\ a.errL
             THEN [a EXCEPT !.errL = FALSE, !.timeout = FALSE,
                     !.promise = IF @ = "pending" THEN "rejected" ELSE @]
             ELSE a]
    /\ op' = [name |-> "onAuthError", result |-> "ok"]
    /\ sentNow' = <<>>
    /\ Quiet

\* The 10 s timer of authenticate() call i expires: reject.
AuthTimeout(i) ==
    /\ i \in 1..Len(authCalls)
    /\ authCalls[i].timeout
    /\ authCalls' = [authCalls EXCEPT
         ![i].timeout = FALSE,
         ![i].promise = IF @ = "pending" THEN "rejected" ELSE @]
    /\ op' = [name |-> "authTimeout", result |-> "ok"]
    /\ sentNow' = <<>>
    /\ Quiet

\* ---------------------------------------------------------------- registry
InSeq(x, s) == \E k \in 1..Len(s) : s[k] = x

\* Set.delete(x) on a Set kept in insertion order.
Without(s, x) == SelectSeq(s, LAMBDA y : y # x)

\* The registry calls leave everything but the registry alone.
RegistryOnly ==
    /\ emitted' = <<>>
    /\ invoked' = <<>>
    /\ sentNow' = <<>>
    /\ UNCHANGED <<state, socket, reconnectAttempts, reconnectTimer,
                   authenticatedWallet, options, env, history>>

\* on(event, handler): adds the handler to the event's Set.
On(e, h) ==
    /\ eventHandlers' =
         [eventHandlers EXCEPT ![e] = IF InSeq(h, @) THEN @ ELSE Append(@, h)]
    /\ op' = [name |-> "on", result |-> "ok", event |-> e, handler |-> h]
    /\ RegistryOnly

Off_clearsEvent(e, h) ==
    /\ eventHandlers' = [eventHandlers EXCEPT ![e] = <<>>]
    /\ op' = [name |-> "off", result |-> "ok", event |-> e, handler |-> h]
    /\ RegistryOnly

\* off(event, handler): deletes the handler from the event's Set, if any.
Off(e, h) ==
    /\ eventHandlers' = [eventHandlers EXCEPT ![e] = Without(@, h)]
    /\ op' = [name |-> "off", result |-> "ok", event |-> e, handler |-> h]
    /\ RegistryOnly

\* removeAllListeners(event): deletes the event's Set.
RemoveAllListeners(e) ==
    /\ eventHandlers' = [eventHandlers EXCEPT ![e] = <<>>]
    /\ op' = [name |-> "removeAllListeners", result |-> "ok", event |-> e]
    /\ RegistryOnly

\* removeAllListeners(): clears the registry.
RemoveEveryListener ==
    /\ eventHandlers' = [e \in DOMAIN eventHandlers |-> <<>>]
    /\ op' = [name |-> "removeAllListeners", result |-> "ok",
              event |-> "undefined"]
    /\ RegistryOnly

\* ------------------------------------------------------------ data events
DataMessages ==
    {"prices:snapshot", "prices:update", "price:snapshot", "price:update",
     "orderbook:snapshot", "orderbook:update", "trades:snapshot",
     "trades:update", "candle:snapshot", "candle:update",
     "position:snapshot", "position:update", "position:closed",
     "openOrder:snapshot", "openOrder:update", "openOrder:removed",
     "orderHistory:snapshot", "orderHistory:update", "funding:snapshot",
     "funding:update", "balance:update", "subscribed", "unsubscribed"}

\* Payloads as the server sends them: an object with a balance field.
Payloads ==
    {[id |-> "p1", balance |-> [num |-> 5]],
     [id |-> "p2", balance |-> [num |-> 7]]}

LogicalEvent_candleMerged(m) ==
    CASE m \in {"prices:snapshot", "prices:update"} -> "prices"
      [] m \in {"price:snapshot", "price:update"} -> "price"
      [] m \in {"orderbook:snapshot", "orderbook:update"} -> "orderbook"
      [] m \in {"trades:snapshot", "trades:update"} -> "trades"
      [] m \in {"candle:snapshot", "candle:update"} -> "candles"
      [] m = "position:snapshot" -> "positions"
      [] m = "position:update" -> "position"
      [] m = "position:closed" -> "positionClosed"
      [] m = "openOrder:snapshot" -> "openOrders"
      [] m = "openOrder:update" -> "openOrder"
      [] m = "openOrder:removed" -> "orderRemoved"
      [] m = "orderHistory:snapshot" -> "orderHistory"
      [] m = "orderHistory:update" -> "orderFill"
      [] m = "funding:snapshot" -> "fundings"
      [] m = "funding:update" -> "funding"
      [] m = "balance:update" -> "balance"
      [] m = "subscribed" -> "subscribed"
      [] m = "unsubscribed" -> "unsubscribed"

\* setupDataListeners(): the logical event each server message is emitted as
LogicalEvent(m) ==
    CASE m = "prices:snapshot" -> "prices"
      [] m = "prices:update" -> "prices"
      [] m = "price:snapshot" -> "price"
      [] m = "price:update" -> "price"
      [] m = "orderbook:snapshot" -> "orderbook"
      [] m = "orderbook:update" -> "orderbook"
      [] m = "trades:snapshot" -> "trades"
      [] m = "trades:update" -> "trades"
      [] m = "candle:snapshot" -> "candles"
      [] m = "candle:update" -> "candle"
      [] m = "position:snapshot" -> "positions"
      [] m = "position:update" -> "position"
      [] m = "position:closed" -> "positionClosed"
      [] m = "openOrder:snapshot" -> "openOrders"
      [] m = "openOrder:update" -> "openOrder"
      [] m = "openOrder:removed" -> "orderRemoved"
      [] m = "orderHistory:snapshot" -> "orderHistory"
      [] m = "orderHistory:update" -> "orderFill"
      [] m = "funding:snapshot" -> "fundings"
      [] m = "funding:update" -> "funding"
      [] m = "balance:update" -> "balance"
      [] m = "subscribed" -> "subscribed"
      [] m = "unsubscribed" -> "unsubscribed"

\* setupDataListeners(): the value each listener passes to emit; the
\* balance:update listener passes data.balance, every other one its argument.
EmittedData(m, data) ==
    IF m = "balance:update" THEN data.balance ELSE data

OnData_installedTwice(t, m, data) ==
    /\ t \in 1..Len(transports)
    /\ transports[t].status \in {"up", "acked"}
    /\ Commit(Emit(Emit(Client, LogicalEvent(m), EmittedData(m, data)),
                   LogicalEvent(m), EmittedData(m, data)))
    /\ op' = [name |-> "onData", result |-> "ok", t |-> t, msg |-> m,
              data |-> data]
    /\ UNCHANGED <<eventHandlers, options, transports, authCalls, history>>

\* A listener of setupDataListeners() runs for message m on socket t.
OnData(t, m, data) ==
    /\ t \in 1..Len(transports)
    /\ transports[t].status \in {"up", "acked"}
    /\ Commit(Emit(Client, LogicalEvent(m), EmittedData(m, data)))
    /\ op' = [name |-> "onData", result |-> "ok", t |-> t, msg |-> m,
              data |-> data]
    /\ UNCHANGED <<eventHandlers, options, transports, authCalls, history>>

\* emit(event, data): the handlers of the event, in insertion order.
Deliveries(ems) ==
    [k \in 1..Len(ems) |->
        [event |-> ems[k].event,
         handlers |-> IF ems[k].event \in DOMAIN eventHandlers
                      THEN eventHandlers[ems[k].event] ELSE <<>>]]

\* ---------------------------------------------------------- specifications
\* Connection lifecycle, reconnection policy and handler registration.
Next ==
    \/ CallConnect(MaxTransports)
    \/ \E i \in 1..MaxTransports : TimerFire(i, MaxTransports)
    \/ \E t \in 1..MaxTransports : TransportUp(t)
    \/ \E t \in 1..MaxTransports : OnConnected(t)
    \/ \E t \in 1..MaxTransports : OnConnectError(t)
    \/ \E t \in 1..MaxTransports, r \in Reasons : OnDisconnect(t, r)
    \/ \E t \in 1..MaxTransports : OnServerError(t, InternalError)
    \/ CallDisconnect
    \/ \E e \in RegEvents, h \in Handlers : On(e, h)

Spec == Init /\ [][Next]_vars

\* A client built with maxReconnectAttempts 1 and reconnectDelay 1000.
InitApi == Init /\ maxReconnectAttempts = 1 /\ reconnectDelay = 1000

\* Lifecycle and the connected-only calls.
NextReq ==
    \/ CallConnect(MaxApiTransports)
    \/ \E i \in 1..MaxApiTransports : TimerFire(i, MaxApiTransports)
    \/ \E t \in 1..MaxApiTransports : TransportUp(t)
    \/ \E t \in 1..MaxApiTransports : OnConnected(t)
    \/ \E t \in 1..MaxApiTransports : OnConnectError(t)
    \/ \E t \in 1..MaxApiTransports, r \in Reasons : OnDisconnect(t, r)
    \/ CallDisconnect
    \/ \E m \in RequestMethods : CallRequest(m)
    \/ \E m \in AssetMethods : CallMissing(m)
    \/ CallGetBalance
    \/ \E w \in Wallets : CallAuthenticate(w, MaxAuthCalls)

SpecReq == InitApi /\ [][NextReq]_vars

\* Lifecycle and the authentication handshake.
NextAuth ==
    \/ CallConnect(MaxAuthTransports)
    \/ \E i \in 1..MaxAuthTransports : TimerFire(i, MaxAuthTransports)
    \/ \E t \in 1..MaxAuthTransports : TransportUp(t)
    \/ \E t \in 1..MaxAuthTransports : OnConnected(t)
    \/ \E t \in 1..MaxAuthTransports : OnConnectError(t)
    \/ \E t \in 1..MaxAuthTransports, r \in Reasons : OnDisconnect(t, r)
    \/ CallDisconnect
    \/ CallGetBalance
    \/ \E w \in Wallets : CallAuthenticate(w, MaxAuthCalls)
    \/ \E i \in 1..MaxAuthCalls : OnAuthenticated(i)
    \/ \E i \in 1..MaxAuthCalls : OnAuthError(i)
    \/ \E i \in 1..MaxAuthCalls : AuthTimeout(i)
    \/ \E t \in 1..MaxAuthTransports, e \in ServerErrors : OnServerError(t, e)

\* An auto-reconnecting client.
InitAuth == InitApi /\ autoReconnect

SpecAuth == InitAuth /\ [][NextAuth]_vars

\* A client that does not reconnect: no timer is ever scheduled.
InitData == InitApi /\ ~autoReconnect

\* Lifecycle and the server's data messages.
NextData ==
    \/ CallConnect(MaxDataTransports)
    \/ \E t \in 1..MaxDataTransports : TransportUp(t)
    \/ \E t \in 1..MaxDataTransports : OnConnected(t)
    \/ \E t \in 1..MaxDataTransports : OnConnectError(t)
    \/ \E t \in 1..MaxDataTransports, r \in Reasons : OnDisconnect(t, r)
    \/ CallDisconnect
    \/ \E e \in DataRegEvents, h \in Handlers : On(e, h)
    \/ \E t \in 1..MaxDataTransports, m \in DataMessages, d \in Payloads :
          OnData(t, m, d)

SpecData == InitData /\ [][NextData]_vars

\* Lifecycle of an auto-reconnecting client with handlers that throw or
\* call back into the client.
NextFan ==
    \/ CallConnect(MaxFanTransports)
    \/ \E i \in 1..MaxFanTransports : TimerFire(i, MaxFanTransports)
    \/ \E t \in 1..MaxFanTransports : TransportUp(t)
    \/ \E t \in 1..MaxFanTransports : OnConnected(t)
    \/ \E t \in 1..MaxFanTransports : OnConnectError(t)
    \/ \E t \in 1..MaxFanTransports, r \in Reasons : OnDisconnect(t, r)
    \/ CallDisconnect
    \/ \E e \in FanEvents, h \in FanHandlers : On(e, h)
    \/ \E e \in FanEvents, h \in FanHandlers : Off(e, h)
    \/ \E e \in FanEvents : RemoveAllListeners(e)
    \/ RemoveEveryListener
    \/ \E t \in 1..MaxFanTransports, m \in FanMessages, d \in Payloads :
          OnData(t, m, d)

SpecFan == InitAuth /\ [][NextFan]_vars

\* An auto-reconnecting client with one or two attempts allowed.
LiveAttempts == {1, 2}
InitLive ==
    /\ Init
    /\ autoReconnect
    /\ reconnectDelay = 1000
    /\ maxReconnectAttempts \in LiveAttempts

\* disconnect() by a caller who stops calling once MaxLiveCalls sockets
\* have been opened.
LiveDisconnect ==
    /\ Len(transports) < MaxLiveCalls
    /\ CallDisconnect

\* The lifecycle with a caller who makes no call that changes anything once
\* MaxLiveCalls sockets have been opened.
NextLive ==
    \/ CallConnect(MaxLiveCalls)
    \/ LiveDisconnect
    \/ \E i \in 1..MaxLiveTransports : TimerFire(i, MaxLiveTransports)
    \/ \E t \in 1..MaxLiveTransports : TransportUp(t)
    \/ \E t \in 1..MaxLiveTransports : OnConnected(t)
    \/ \E t \in 1..MaxLiveTransports : OnConnectError(t)
    \/ \E t \in 1..MaxLiveTransports, r \in Reasons : OnDisconnect(t, r)

\* Every scheduled timer eventually fires (setTimeout), and every opened
\* socket eventually finishes its handshake and is acknowledged unless it
\* fails or drops first.
LiveFairness ==
    \A i \in 1..MaxLiveTransports :
        /\ WF_vars(TimerFire(i, MaxLiveTransports))
        /\ WF_vars(TransportUp(i))
        /\ WF_vars(OnConnected(i))

SpecLive == InitLive /\ [][NextLive]_vars /\ LiveFairness

\* One connection of a client that does not reconnect, with authenticate()
\* calls that may be in flight together.
NextRace ==
    \/ CallConnect(MaxRaceTransports)
    \/ \E t \in 1..MaxRaceTransports : TransportUp(t)
    \/ \E t \in 1..MaxRaceTransports : OnConnected(t)
    \/ \E t \in 1..MaxRaceTransports : OnConnectError(t)
    \/ \E t \in 1..MaxRaceTransports, r \in Reasons : OnDisconnect(t, r)
    \/ CallDisconnect
    \/ \E w \in Wallets : CallAuthenticate(w, MaxRaceCalls)
    \/ \E i \in 1..MaxRaceCalls : OnAuthenticated(i)
    \/ \E i \in 1..MaxRaceCalls : OnAuthError(i)
    \/ \E i \in 1..MaxRaceCalls : AuthTimeout(i)

SpecRace == InitData /\ [][NextRace]_vars

\* ------------------------------------------------------------------ claims
ConnectedOnlyCalls == RequestMethods \cup {"authenticate", "getBalance"}

HasEmitted(event, code) ==
    \E k \in 1..Len(emitted) :
        /\ emitted[k].event = event
        /\ event = "error" => emitted[k].data.code = code

\* C1: at most one transport is live (opened and neither closed nor failed)
\* in every reachable state, and a live transport is the one the client
\* holds; a connect() made while connecting or connected opens none.
OneLiveTransport ==
    /\ Cardinality(LiveTransports) <= 1
    /\ \A t \in LiveTransports : t = socket

OneLiveTransportWitness ==
    /\ op.name = "connect"
    /\ op.result = "resolved"
    /\ state = "connecting"
    /\ Len(transports) >= 2
    /\ Cardinality(LiveTransports) = 1

\* C2 (as claimed): after disconnect() returned and until the caller calls
\* connect(), the state is disconnected, no reconnect timer is pending and
\* no transport is live.
DisconnectIsFinal ==
    userDisconnected =>
        /\ state = "disconnected"
        /\ PendingTimers = {}
        /\ LiveTransports = {}

\* C3 (as claimed): the promise of the connect() call that opened a
\* transport is rejected once that transport has reported a connection
\* error, and resolved once it has acknowledged.
ConnectSettles ==
    \A t \in 1..Len(transports) :
        /\ transports[t].status = "failed" => transports[t].promise = "rejected"
        /\ transports[t].status = "acked" => transports[t].promise = "resolved"

\* C4 (as claimed): the authenticated identity is set exactly when an
\* authenticate handshake has succeeded since the last disconnect (by the
\* caller or of the transport).
IdentityIffAuthenticated ==
    (authenticatedWallet # NoWallet) <=> authOK

\* C5: with auto-reconnect, the i-th consecutive transport failure since the
\* last acknowledgment emits `reconnecting` with attempt i while i <= M, and
\* every later one emits the MAX_RECONNECT_ATTEMPTS error and leaves the
\* state error.
ReconnectSequence ==
    autoReconnect =>
        /\ Len(policyLog) = failures
        /\ \A i \in 1..Len(policyLog) :
              policyLog[i] = IF i <= maxReconnectAttempts THEN i ELSE 0
        /\ (/\ op.name \in {"onConnectError", "onDisconnect"}
            /\ failures <= maxReconnectAttempts)
             => /\ state = "reconnecting"
                /\ emitted[Len(emitted)] =
                     [event |-> "reconnecting",
                      data |-> [attempt |-> failures,
                                maxAttempts |-> maxReconnectAttempts]]
        /\ (/\ op.name \in {"onConnectError", "onDisconnect"}
            /\ failures > maxReconnectAttempts)
             => /\ state = "error"
                /\ HasEmitted("error", "MAX_RECONNECT_ATTEMPTS")
                /\ ~HasEmitted("reconnecting", "")

ReconnectSequenceWitness ==
    /\ autoReconnect
    /\ maxReconnectAttempts = 2
    /\ failures = 3
    /\ op.name = "onDisconnect"
    /\ policyLog = <<1, 2, 0>>
    /\ state = "error"

\* C6: right after a connection acknowledgment the reconnect counter is 0,
\* and after N consecutive auto-reconnect-triggering failures with no
\* acknowledgment in between, N <= M, the counter is N.
CounterTracksFailures ==
    /\ op.name = "onConnected" => reconnectAttempts = 0
    /\ (autoReconnect /\ failures <= maxReconnectAttempts)
         => reconnectAttempts = failures

CounterTracksFailuresWitness ==
    /\ autoReconnect
    /\ op.name = "onDisconnect"
    /\ failures = 2
    /\ reconnectAttempts = 2
    /\ \E t \in 1..Len(transports) : transports[t].promise = "resolved"

\* C7: the timer scheduled with the `reconnecting` event of attempt k has
\* delay reconnectDelay * 1.5^(k-1) exactly, k in 1..M; base 1000 gives
\* 1000, 1500, 2250.
BackoffExact ==
    \A i \in 1..Len(timers) :
        LET k == timers[i].attempt
            d == timers[i].delay
        IN  /\ k \in 1..maxReconnectAttempts
            /\ d.num * IntPow(2, k - 1) = reconnectDelay * IntPow(3, k - 1) * d.den
            /\ (reconnectDelay = 1000 /\ k = 1) => d.num = 1000 * d.den
            /\ (reconnectDelay = 1000 /\ k = 2) => d.num = 1500 * d.den
            /\ (reconnectDelay = 1000 /\ k = 3) => d.num = 2250 * d.den

BackoffExactWitness ==
    /\ reconnectDelay = 1000
    /\ \E i \in 1..Len(timers) :
          /\ timers[i].attempt = 3
          /\ timers[i].delay.num = 2250 * timers[i].delay.den
          /\ timers[i].status = "pending"

\* C8: a connected-only call made in a state other than connected fails
\* with the not-connected error and sends nothing.
NotConnectedFails ==
    [][(op'.name \in ConnectedOnlyCalls /\ state # "connected")
         => (op'.result = NotConnected /\ sentNow' = <<>>)]_vars

NotConnectedFailsWitness ==
    /\ op.name = "subscribeCandles"
    /\ op.result = NotConnected
    /\ state = "connecting"
    /\ socket # NoSocket
    /\ sentNow = <<>>

\* C9: getBalance() while connected with no identity fails with the
\* not-authenticated error, which is not the not-connected error, and sends
\* nothing; when not connected it fails with the not-connected error.
BalanceNeedsIdentity ==
    [][op'.name = "getBalance" =>
         /\ NotAuthenticated # NotConnected
         /\ (state = "connected" /\ authenticatedWallet = NoWallet)
              => (op'.result = NotAuthenticated /\ sentNow' = <<>>)
         /\ state # "connected"
              => (op'.result = NotConnected /\ sentNow' = <<>>)]_vars

BalanceNeedsIdentityWitness ==
    /\ op.name = "getBalance"
    /\ op.result = NotAuthenticated
    /\ state = "connected"
    /\ authenticatedWallet = NoWallet
    /\ \E i \in 1..Len(authCalls) : authCalls[i].promise = "rejected"

\* C10 (as claimed): a disconnect() that directly follows a disconnect()
\* delivers no lifecycle event to a registered handler and leaves state,
\* identity, transport reference and timer as they were.
SecondDisconnectSilent ==
    [][(op.name = "disconnect" /\ op'.name = "disconnect") =>
         /\ \A k \in 1..Len(emitted') :
               emitted'[k].event \in LifecycleEvents
                  => Deliveries(emitted')[k].handlers = <<>>
         /\ UNCHANGED <<state, socket, reconnectTimer, authenticatedWallet,
                        timers>>]_vars

\* The handler calls made for emission number k of the step, in order.
CallsOf(k) == SelectSeq(invoked, LAMBDA x : x.em = k)

\* C11: for every emission, every handler registered for the event is
\* invoked, in registration order, whether or not an earlier one threw; an
\* exception a handler throws is caught inside emit, so it does not reach
\* the transport callback; and the registry is the one the emission found.
HandlerIsolation ==
    \A k \in 1..Len(emitted) :
        LET hs == eventHandlers[emitted[k].event]
            calls == CallsOf(k)
        IN  /\ Len(calls) = Len(hs)
            /\ \A j \in 1..Len(calls) :
                  /\ calls[j].handler = hs[j]
                  /\ calls[j].event = emitted[k].event
                  /\ calls[j].threw => calls[j].caught

HandlerIsolationWitness ==
    /\ op.name = "onData"
    /\ \E k \in 1..Len(emitted) :
          /\ emitted[k].event = "prices"
          /\ Len(CallsOf(k)) = 2
          /\ CallsOf(k)[1].handler = "hThrow"
          /\ CallsOf(k)[1].threw
          /\ CallsOf(k)[2].handler = "hSub"
          /\ ~CallsOf(k)[2].threw

\* C12 (as claimed): an authenticate() call that ended by timeout or by
\* auth:error leaves the identity as it was, so the identity is set only
\* when some authenticate() call has succeeded (its promise resolved).
FailedAuthKeepsIdentity ==
    authenticatedWallet # NoWallet =>
        \E i \in 1..Len(authCalls) : authCalls[i].promise = "resolved"

\* The logical event the mapping table names for each server message.
MappedEvent ==
    [m \in DataMessages |->
       CASE m \in {"prices:snapshot", "prices:update"} -> "prices"
         [] m \in {"price:snapshot", "price:update"} -> "price"
         [] m \in {"orderbook:snapshot", "orderbook:update"} -> "orderbook"
         [] m \in {"trades:snapshot", "trades:update"} -> "trades"
         [] m = "candle:snapshot" -> "candles"
         [] m = "candle:update" -> "candle"
         [] m = "position:snapshot" -> "positions"
         [] m = "position:update" -> "position"
         [] m = "position:closed" -> "positionClosed"
         [] m = "openOrder:snapshot" -> "openOrders"
         [] m = "openOrder:update" -> "openOrder"
         [] m = "openOrder:removed" -> "orderRemoved"
         [] m = "orderHistory:snapshot" -> "orderHistory"
         [] m = "orderHistory:update" -> "orderFill"
         [] m = "funding:snapshot" -> "fundings"
         [] m = "funding:update" -> "funding"
         [] m = "balance:update" -> "balance"
         [] m = "subscribed" -> "subscribed"
         [] m = "unsubscribed" -> "unsubscribed"]

\* C13 (as claimed): each data message received on a live transport causes
\* exactly one emission, of the logical event it is mapped to, with the
\* payload of the message unchanged.
DataPassedThrough ==
    op.name = "onData" =>
        emitted = <<[event |-> MappedEvent[op.msg], data |-> op.data]>>

\* C13 (amended): each data message received on a live transport causes
\* exactly one emission, of the logical event it is mapped to; the emission
\* carries the payload unchanged, except that balance:update carries the
\* balance field of its payload.
DataMappedOnce ==
    op.name = "onData" =>
        emitted = <<[event |-> MappedEvent[op.msg],
                     data |-> IF op.msg = "balance:update"
                              THEN op.data.balance ELSE op.data]>>

DataMappedOnceWitness ==
    /\ op.name = "onData"
    /\ op.msg = "balance:update"
    /\ op.data = [id |-> "p1", balance |-> [num |-> 5]]
    /\ emitted = <<[event |-> "balance", data |-> [num |-> 5]]>>
    /\ invoked # <<>>

\* C14 (as claimed): once attempts are exhausted and the state is error, a
\* timer expiry or a transport event leaves the state error and opens no
\* transport.
ErrorIsTerminal ==
    [][(/\ state = "error"
        /\ autoReconnect
        /\ op'.name \in {"timer", "transportUp", "onConnected",
                         "onConnectError", "onDisconnect", "onServerError"})
         => (state' = "error" /\ transports' = transports)]_vars

\* C15 (as claimed): connect() called in state error after the attempts
\* were exhausted moves the state to connecting and resets the reconnect
\* counter to 0.
ConnectResetsCounter ==
    [][(state = "error" /\ autoReconnect /\ op'.name = "connect")
         => (state' = "connecting" /\ reconnectAttempts' = 0)]_vars

\* C16: whenever a `connected` event is delivered to a handler that calls
\* subscribePrices(), the call does not throw and its request is sent on
\* the held transport, the state being connected; on the first connection
\* and on every automatic reconnection.
ConnectedHandlerCanSubscribe ==
    \A j \in 1..Len(invoked) :
        (invoked[j].event = "connected" /\ invoked[j].handler = "hSub") =>
            /\ ~invoked[j].threw
            /\ state = "connected"
            /\ \E k \in 1..Len(sentNow) :
                  sentNow[k] = [t |-> socket, name |-> "subscribe:price"]

ConnectedHandlerCanSubscribeWitness ==
    /\ op.name = "onConnected"
    /\ socket = 2
    /\ \E i \in 1..Len(timers) : timers[i].status = "fired"
    /\ \E j \in 1..Len(invoked) :
          /\ invoked[j].event = "connected"
          /\ invoked[j].handler = "hSub"
          /\ ~invoked[j].threw
    /\ sentNow = <<[t |-> 2, name |-> "subscribe:price"]>>

\* C17: connect() called while the state is connected or connecting
\* resolves at once, leaves state, reconnect counter, identity, transport
\* and timer as they were, opens nothing and emits no event.
ConnectWhileConnectedIsNoOp ==
    [][(state \in {"connected", "connecting"} /\ op'.name = "connect") =>
         /\ op'.result = "resolved"
         /\ emitted' = <<>>
         /\ UNCHANGED <<state, reconnectAttempts, authenticatedWallet,
                        socket, reconnectTimer, transports, timers>>]_vars

ConnectWhileConnectedIsNoOpWitness ==
    /\ op = [name |-> "connect", result |-> "resolved"]
    /\ state = "connected"
    /\ authenticatedWallet # NoWallet
    /\ emitted = <<>>

\* C18 (as claimed): subscribeAsset(asset), called while connected, sends
\* the subscribe requests for price, order book, trades and candles of the
\* asset.
AssetSubscriptionOffered ==
    (op.name = "subscribeAsset" /\ state = "connected") =>
        {sentNow[k].name : k \in 1..Len(sentNow)} =
            {"subscribe:price", "subscribe:orderbook", "subscribe:trades",
             "subscribe:candle"}

EmittedCount(event) ==
    Cardinality({k \in 1..Len(emitted) : emitted[k].event = event})

\* C19: a transport-level disconnect emits exactly one `disconnected` event
\* carrying the reason; with auto-reconnect the policy then runs (state
\* reconnecting with a timer, or error with MAX_RECONNECT_ATTEMPTS), without
\* it the state is disconnected and no timer exists; the caller's own
\* disconnect never runs the policy.
TransportDisconnectHandled ==
    /\ op.name = "onDisconnect" =>
          /\ EmittedCount("disconnected") = 1
          /\ \E k \in 1..Len(emitted) :
                emitted[k] = [event |-> "disconnected",
                              data |-> [reason |-> op.reason]]
          /\ IF autoReconnect
             THEN \/ /\ state = "reconnecting"
                     /\ EmittedCount("reconnecting") = 1
                     /\ reconnectTimer \in PendingTimers
                  \/ /\ state = "error"
                     /\ HasEmitted("error", "MAX_RECONNECT_ATTEMPTS")
             ELSE /\ state = "disconnected"
                  /\ reconnectTimer = NoTimer
                  /\ PendingTimers = {}
                  /\ EmittedCount("reconnecting") = 0
                  /\ EmittedCount("error") = 0
    /\ op.name = "disconnect" =>
          /\ state = "disconnected"
          /\ reconnectTimer = NoTimer
          /\ EmittedCount("reconnecting") = 0
          /\ EmittedCount("error") = 0
          /\ EmittedCount("disconnected") <= 1

TransportDisconnectHandledWitness ==
    /\ op.name = "onDisconnect"
    /\ op.reason = "io server disconnect"
    /\ autoReconnect
    /\ state = "reconnecting"
    /\ reconnectAttempts = 2
    /\ emitted[2] = [event |-> "disconnected",
                     data |-> [reason |-> "io server disconnect"]]

\* C20: with auto-reconnect disabled, a connection failure while connecting
\* moves the state to error, emits exactly one error event, with code
\* CONNECTION_ERROR, schedules no timer and leaves the counter as it was;
\* and a transport is opened only by a connect() call of the caller.
FailureWithoutReconnect ==
    [][~autoReconnect =>
         /\ (state = "connecting" /\ op'.name = "onConnectError") =>
               /\ state' = "error"
               /\ Cardinality({k \in 1..Len(emitted') :
                                 emitted'[k].event = "error"}) = 1
               /\ \E k \in 1..Len(emitted') :
                     /\ emitted'[k].event = "error"
                     /\ emitted'[k].data.code = "CONNECTION_ERROR"
               /\ reconnectTimer' = NoTimer
               /\ timers' = <<>>
               /\ reconnectAttempts' = reconnectAttempts
         /\ transports' # transports =>
               \/ op'.name = "connect"
               \/ Len(transports') = Len(transports)]_vars

FailureWithoutReconnectWitness ==
    /\ ~autoReconnect
    /\ op.name = "onConnectError"
    /\ state = "error"
    /\ Len(transports) = 2
    /\ HasEmitted("error", "CONNECTION_ERROR")
    /\ timers = <<>>

\* The `reconnecting` events emitted since the last `connected` event.
ReconnectingSinceConnected ==
    Cardinality({i \in 1..Len(policyLog) : policyLog[i] # 0})

\* C21: the reconnect counter stays in 0..maxReconnectAttempts, every
\* `reconnecting` event carries an attempt in 1..maxReconnectAttempts, and
\* at most maxReconnectAttempts of them are emitted between two `connected`
\* events, whatever the caller's connect() and disconnect() calls.
AttemptsBounded ==
    /\ reconnectAttempts \in 0..maxReconnectAttempts
    /\ \A k \in 1..Len(emitted) :
          emitted[k].event = "reconnecting" =>
              /\ emitted[k].data.attempt \in 1..maxReconnectAttempts
              /\ emitted[k].data.maxAttempts = maxReconnectAttempts
    /\ ReconnectingSinceConnected <= maxReconnectAttempts

AttemptsBoundedWitness ==
    /\ maxReconnectAttempts = 2
    /\ reconnectAttempts = 2
    /\ ReconnectingSinceConnected = 2
    /\ op.name = "disconnect"
    /\ \E t \in 1..Len(transports) : transports[t].promise = "resolved"

\* The caller has stopped calling.
CallerQuiet == Len(transports) >= MaxLiveCalls

\* The sockets the reconnect loop can still open fit in the model: one per
\* pending timer and one per attempt left.
WithinBudget ==
    Len(transports) + Cardinality(PendingTimers)
        + (maxReconnectAttempts - reconnectAttempts) <= MaxLiveTransports

\* C22: with auto-reconnect, once the caller has stopped calling, if every
\* timer fires and every socket is acknowledged or fails, a client in state
\* reconnecting or connecting eventually reaches connected or error.
ReconnectTerminates ==
    (CallerQuiet /\ WithinBudget /\ state \in {"reconnecting", "connecting"})
        ~> (state \in {"connected", "error"})

ReconnectTerminatesWitness ==
    /\ state = "error"
    /\ maxReconnectAttempts = 2
    /\ reconnectAttempts = 2
    /\ Len(transports) = 3
    /\ PendingTimers = {}
    /\ \A i \in 1..Len(timers) : timers[i].status = "fired"

\* C23: a successful subscribe, unsubscribe or getPrices call sends exactly
\* one request, on the held live transport; and connect(), a timer expiry
\* and the transport events of a (re)connection send nothing.
RequestsSentOnce ==
    /\ (op.name \in RequestMethods /\ op.result = "ok") =>
          /\ Len(sentNow) = 1
          /\ sentNow[1].t = socket
          /\ socket \in LiveTransports
          /\ sentNow[1].name \in
                {"subscribe:price", "get:prices", "subscribe:orderbook",
                 "subscribe:trades", "subscribe:candle", "unsubscribe"}
    /\ op.name \in {"connect", "timer", "transportUp", "onConnected",
                    "onConnectError", "onDisconnect", "disconnect"}
          => sentNow = <<>>

RequestsSentOnceWitness ==
    /\ op = [name |-> "subscribeTrades", result |-> "ok"]
    /\ socket = 2
    /\ transports[1].status = "closed"
    /\ sentNow = <<[t |-> 2, name |-> "subscribe:trades"]>>

\* How many times handler h was called in the step.
TimesInvoked(h) ==
    Cardinality({j \in 1..Len(invoked) : invoked[j].handler = h})

\* C24: after any number of reconnections a data message is received on
\* the held transport only, it is emitted once, and each handler registered
\* for its logical event is invoked exactly once (no other handler is).
ListenersOncePerTransport ==
    op.name = "onData" =>
        /\ op.t = socket
        /\ LiveTransports = {socket}
        /\ Len(emitted) = 1
        /\ \A h \in FanHandlers :
              TimesInvoked(h) =
                  IF InSeq(h, eventHandlers[emitted[1].event]) THEN 1 ELSE 0

ListenersOncePerTransportWitness ==
    /\ op.name = "onData"
    /\ op.t = 2
    /\ transports[1].status = "closed"
    /\ \E i \in 1..Len(timers) : timers[i].status = "fired"
    /\ TimesInvoked("hThrow") = 1
    /\ TimesInvoked("hSub") = 1

\* The authenticate() calls whose promise the step resolves.
ResolvedNow ==
    {j \in 1..Len(authCalls) :
        authCalls[j].promise = "pending" /\ authCalls'[j].promise = "resolved"}

\* C25 (as claimed): one `authenticated` response resolves at most one
\* pending authenticate() call, and a call that resolves for identity w
\* leaves the authenticated identity equal to w.
AuthSettledByOwnResponse ==
    [][op'.name = "onAuthenticated" =>
         /\ Cardinality(ResolvedNow) <= 1
         /\ \A j \in ResolvedNow :
               authenticatedWallet' = authCalls[j].wallet]_vars

\* C26 (as claimed): at most one reconnect timer is pending, and it is the
\* one reconnectTimer refers to.
OneHeldTimer ==
    /\ Cardinality(PendingTimers) <= 1
    /\ \A i \in PendingTimers : i = reconnectTimer

\* C27: an auth:error response or an authentication timeout emits nothing
\* (no error event, no authenticated event), leaves state, counter,
\* identity, transport and timer as they were, and changes a promise only
\* by rejecting it.
AuthFailureOnlyRejects ==
    [][op'.name \in {"onAuthError", "authTimeout"} =>
         /\ emitted' = <<>>
         /\ invoked' = <<>>
         /\ UNCHANGED <<state, socket, reconnectAttempts, reconnectTimer,
                        authenticatedWallet, transports, timers>>
         /\ \A j \in 1..Len(authCalls) :
               authCalls'[j].promise # authCalls[j].promise
                  => authCalls'[j].promise = "rejected"]_vars

AuthFailureOnlyRejectsWitness ==
    /\ op.name = "onAuthError"
    /\ state = "connected"
    /\ authenticatedWallet = NoWallet
    /\ emitted = <<>>
    /\ \E i \in 1..Len(authCalls) :
          authCalls[i].promise = "rejected" /\ authCalls[i].timeout = FALSE

\* C28: a server-reported application error is emitted as exactly one
\* `error` event carrying the payload received, and leaves state, counter,
\* identity, transport and timer as they were.
ServerErrorRelayed ==
    [][op'.name = "onServerError" =>
         /\ emitted' = <<[event |-> "error", data |-> op'.data]>>
         /\ UNCHANGED <<state, reconnectAttempts, authenticatedWallet,
                        socket, reconnectTimer, transports, timers>>]_vars

ServerErrorRelayedWitness ==
    /\ op.name = "onServerError"
    /\ state = "connected"
    /\ authenticatedWallet # NoWallet
    /\ emitted = <<[event |-> "error",
                    data |-> [code |-> "RATE_LIMITED",
                              message |-> "too many requests"]]>>

\* C29: within a step the handler calls of one emission all come before
\* those of the next emission (delivery is synchronous and in emission
\* order), and the handlers called for an emission are the handlers
\* registered for its event, each once, in registration order.
DeliveryInOrder ==
    /\ \A j \in 1..(Len(invoked) - 1) : invoked[j].em <= invoked[j + 1].em
    /\ \A k \in 1..Len(emitted) :
          [j \in 1..Len(CallsOf(k)) |-> CallsOf(k)[j].handler]
              = eventHandlers[emitted[k].event]

DeliveryInOrderWitness ==
    /\ op.name = "onData"
    /\ op.msg = "prices:update"
    /\ eventHandlers["prices"] = <<"hSub", "hThrow">>
    /\ Len(invoked) = 2
    /\ invoked[1].handler = "hSub"
    /\ invoked[2].handler = "hThrow"

\* C30: on, off and removeAllListeners send nothing, emit nothing and leave
\* state, counter, identity, transport and timer as they were; on(e, h)
\* registers h for e only, off(e, h) removes h from e only and keeps the
\* other handlers in order, removeAllListeners(e) empties e only and
\* removeAllListeners() empties every event; and a step never invokes a
\* handler that is not registered for the event when the step starts.
RegistryCallsOnlyRegistry ==
    [][/\ op'.name \in {"on", "off", "removeAllListeners"} =>
            /\ sentNow' = <<>>
            /\ emitted' = <<>>
            /\ UNCHANGED <<state, reconnectAttempts, authenticatedWallet,
                           reconnectTimer, socket, transports, timers>>
       /\ op'.name = "on" =>
            /\ InSeq(op'.handler, eventHandlers'[op'.event])
            /\ \A e \in DOMAIN eventHandlers \ {op'.event} :
                  eventHandlers'[e] = eventHandlers[e]
       /\ op'.name = "off" =>
            \A e \in DOMAIN eventHandlers :
                eventHandlers'[e] =
                    IF e = op'.event
                    THEN SelectSeq(eventHandlers[e],
                                   LAMBDA x : x # op'.handler)
                    ELSE eventHandlers[e]
       /\ op'.name = "removeAllListeners" =>
            \A e \in DOMAIN eventHandlers :
                eventHandlers'[e] =
                    IF op'.event \in {e, "undefined"} THEN <<>>
                    ELSE eventHandlers[e]
       /\ \A j \in 1..Len(invoked') :
            InSeq(invoked'[j].handler, eventHandlers[invoked'[j].event])
      ]_vars

RegistryCallsOnlyRegistryWitness ==
    /\ op = [name |-> "off", result |-> "ok", event |-> "prices",
             handler |-> "hThrow"]
    /\ eventHandlers["prices"] = <<"hSub">>
    /\ eventHandlers["connected"] = <<"hThrow", "hSub">>
    /\ state = "connected"
====
